---- MODULE Spec2Model ----
(***************************************************************************)
(* Model of the compgrapher salary-survey scripts:                         *)
(*   compare_to_first_employer.py, visualize_dartmouth_original.py,        *)
(*   visualize_all_employers.py.                                           *)
(* Text is a sequence of one-character strings.  A float is an exact       *)
(* decimal  (-1)^neg * m * 10^e,  or nan, or +/-inf.                       *)
(***************************************************************************)
EXTENDS Integers, Sequences, FiniteSets, TLC

VARIABLES value, result,
          script, path_exists, pc, exc, headers, town_indices, town_colors,
          row, rows_read, position_data, dartmouth_data, filtered_data,
          suffix, comp_data, warnings, validate, data_by_employer, plotted,
          written, index_links, difference_analysis

vars == <<value, result, script, path_exists, pc, exc, headers, town_indices,
          town_colors, row, rows_read, position_data, dartmouth_data, filtered_data,
          suffix, comp_data, warnings, validate, data_by_employer, plotted,
          written, index_links, difference_analysis>>

\* the files written, the links of the index page and the rows of the
\* difference analysis
reportVars == <<written, index_links, difference_analysis>>

\* what the steps after the load leave alone
loadFrame == <<script, path_exists, headers, town_indices, town_colors, row,
               rows_read, position_data, dartmouth_data>>

\* the state the loaders of compare_to_first_employer and
\* visualize_dartmouth_original never write
otherVars == <<suffix, comp_data, warnings, validate, data_by_employer, plotted,
               reportVars>>

\* nothing loaded by visualize_all_employers, nothing handed to a chart
ChartIdle ==
  /\ data_by_employer = <<>>
  /\ plotted = <<>>
  /\ written = {}
  /\ index_links = {}
  /\ difference_analysis = <<>>

\* no call of the parser is under way
ParserIdle ==
  /\ comp_data = <<>>
  /\ warnings = <<>>
  /\ validate = FALSE

cellVars == <<value, result>>
loadVars == <<script, path_exists, pc, exc, headers, town_indices, town_colors,
              row, rows_read, position_data, dartmouth_data, filtered_data>>

(***************************************************************************)
(* Bounds.                                                                 *)
(***************************************************************************)
MaxLen == 4

(***************************************************************************)
(* Characters and Python's str methods.                                    *)
(***************************************************************************)
Digits == {"0", "1", "2", "3", "4", "5", "6", "7", "8", "9"}

DigitVal(c) ==
  CASE c = "0" -> 0 [] c = "1" -> 1 [] c = "2" -> 2 [] c = "3" -> 3
    [] c = "4" -> 4 [] c = "5" -> 5 [] c = "6" -> 6 [] c = "7" -> 7
    [] c = "8" -> 8 [] c = "9" -> 9

IsSpace(c) == c \in {" ", "\t", "\n", "\r"}

\* str.lower() on one character
LowerChar(c) ==
  CASE c = "A" -> "a" [] c = "B" -> "b" [] c = "C" -> "c" [] c = "D" -> "d"
    [] c = "E" -> "e" [] c = "F" -> "f" [] c = "G" -> "g" [] c = "H" -> "h"
    [] c = "I" -> "i" [] c = "J" -> "j" [] c = "K" -> "k" [] c = "L" -> "l"
    [] c = "M" -> "m" [] c = "N" -> "n" [] c = "O" -> "o" [] c = "P" -> "p"
    [] c = "Q" -> "q" [] c = "R" -> "r" [] c = "S" -> "s" [] c = "T" -> "t"
    [] c = "U" -> "u" [] c = "V" -> "v" [] c = "W" -> "w" [] c = "X" -> "x"
    [] c = "Y" -> "y" [] c = "Z" -> "z"
    [] OTHER -> c

lower(s) == [i \in 1..Len(s) |-> LowerChar(s[i])]

\* str.strip(): drop leading and trailing whitespace
strip(s) ==
  LET keep == {i \in 1..Len(s) : ~IsSpace(s[i])}
  IN  IF keep = {} THEN <<>>
      ELSE LET lo == CHOOSE i \in keep : \A j \in keep : i <= j
               hi == CHOOSE i \in keep : \A j \in keep : j <= i
           IN  SubSeq(s, lo, hi)

\* str.replace(c, ''): delete every occurrence of the character c
replace(s, c) == SelectSeq(s, LAMBDA x : x # c)

\* 'per' in s
ContainsPer(s) ==
  \E i \in 1..(Len(s) - 2) : s[i] = "p" /\ s[i + 1] = "e" /\ s[i + 2] = "r"

(***************************************************************************)
(* Floats.                                                                 *)
(***************************************************************************)
PyNone == [k |-> "None", neg |-> FALSE, m |-> 0, e |-> 0]
NaN == [k |-> "nan", neg |-> FALSE, m |-> 0, e |-> 0]
Inf(n) == [k |-> "inf", neg |-> n, m |-> 0, e |-> 0]
ValueError == [k |-> "ValueError", neg |-> FALSE, m |-> 0, e |-> 0]

RECURSIVE NumDigits(_)
NumDigits(n) == IF n < 10 THEN 1 ELSE 1 + NumDigits(n \div 10)

RECURSIVE Pow10(_)
Pow10(n) == IF n = 0 THEN 1 ELSE 10 * Pow10(n - 1)

RECURSIVE Norm(_, _, _)
\* canonical form of (-1)^neg * m * 10^e
Norm(neg, m, e) ==
  IF m = 0 THEN [k |-> "num", neg |-> neg, m |-> 0, e |-> 0]
  ELSE IF m % 10 = 0 THEN Norm(neg, m \div 10, e + 1)
  ELSE [k |-> "num", neg |-> neg, m |-> m, e |-> e]

FloatZero == Norm(FALSE, 0, 0)

\* the first four significant digits of m (nd digits long)
Lead4(m, nd) == IF nd >= 4 THEN m \div Pow10(nd - 4) ELSE m * Pow10(4 - nd)

\* m has nd digits: 10^mag <= m * 10^e < 10^(mag + 1)  for mag = nd + e - 1
RoundFloat(neg, m, e, nd) ==
  IF nd + e - 1 > 308 \/ (nd + e - 1 = 308 /\ Lead4(m, nd) >= 1798) THEN Inf(neg)
  ELSE IF nd + e - 1 < 0 - 324 THEN Norm(neg, 0, 0)
  ELSE Norm(neg, m, e)

\* a decimal rounded to a double: above 1.79e308 it overflows to inf, below
\* 4.9e-324 it underflows to zero (decided on the decimal order of magnitude)
MkFloat(neg, m, e) ==
  IF m = 0 THEN Norm(neg, 0, 0) ELSE RoundFloat(neg, m, e, NumDigits(m))

RECURSIVE DigitsVal(_)
DigitsVal(s) ==
  IF s = <<>> THEN 0
  ELSE 10 * DigitsVal(SubSeq(s, 1, Len(s) - 1)) + DigitVal(s[Len(s)])

\* digitpart ::= digit (["_"] digit)*
IsDigitPart(s) ==
  /\ Len(s) > 0
  /\ s[1] \in Digits
  /\ s[Len(s)] \in Digits
  /\ \A i \in 1..Len(s) : s[i] \in Digits \cup {"_"}
  /\ \A i \in 1..(Len(s) - 1) : ~(s[i] = "_" /\ s[i + 1] = "_")

FirstIndex(s, S) ==
  IF \E i \in 1..Len(s) : s[i] \in S
    THEN CHOOSE i \in 1..Len(s) : s[i] \in S /\ \A j \in 1..(i - 1) : s[j] \notin S
    ELSE 0

\* the decimal  ip.fp * 10^exv  of checked digit parts
FloatOfParts(neg, ip, fp, exv) ==
  MkFloat(neg, DigitsVal(replace(ip, "_") \o replace(fp, "_")),
          exv - Len(replace(fp, "_")))

\* exponent: an optional sign and a digit part
ExponentOk(ex) ==
  IsDigitPart(IF Len(ex) > 0 /\ ex[1] \in {"-", "+"} THEN Tail(ex) ELSE ex)
ExponentVal(ex) ==
  IF Len(ex) > 0 /\ ex[1] = "-" THEN 0 - DigitsVal(replace(Tail(ex), "_"))
  ELSE IF Len(ex) > 0 /\ ex[1] = "+" THEN DigitsVal(replace(Tail(ex), "_"))
  ELSE DigitsVal(replace(ex, "_"))

\* mantissa ip [. fp] with at least one digit part
MantissaOk(ip, fp) ==
  /\ ip = <<>> \/ IsDigitPart(ip)
  /\ fp = <<>> \/ IsDigitPart(fp)
  /\ ~(ip = <<>> /\ fp = <<>>)

FloatMantExp(neg, mant, dot, hasExp, ex) ==
  IF /\ MantissaOk(IF dot = 0 THEN mant ELSE SubSeq(mant, 1, dot - 1),
                   IF dot = 0 THEN <<>> ELSE SubSeq(mant, dot + 1, Len(mant)))
     /\ hasExp => ExponentOk(ex)
    THEN FloatOfParts(neg,
                      IF dot = 0 THEN mant ELSE SubSeq(mant, 1, dot - 1),
                      IF dot = 0 THEN <<>> ELSE SubSeq(mant, dot + 1, Len(mant)),
                      IF hasExp THEN ExponentVal(ex) ELSE 0)
    ELSE ValueError

FloatNumber(neg, u, epos) ==
  IF epos = 0 THEN FloatMantExp(neg, u, FirstIndex(u, {"."}), FALSE, <<>>)
  ELSE FloatMantExp(neg, SubSeq(u, 1, epos - 1),
                    FirstIndex(SubSeq(u, 1, epos - 1), {"."}),
                    TRUE, SubSeq(u, epos + 1, Len(u)))

\* u is the lower-cased text after the sign
FloatUnsigned(neg, u) ==
  IF u = <<"n", "a", "n">> THEN NaN
  ELSE IF u \in {<<"i", "n", "f">>, <<"i", "n", "f", "i", "n", "i", "t", "y">>}
    THEN Inf(neg)
  ELSE FloatNumber(neg, u, FirstIndex(u, {"e"}))

FloatStripped(t) ==
  IF Len(t) > 0 /\ t[1] \in {"-", "+"}
    THEN FloatUnsigned(t[1] = "-", Tail(t))
    ELSE FloatUnsigned(FALSE, t)

\* float(text): the value, or ValueError.  Grammar (case-insensitive, after
\* stripping whitespace): [sign] (nan | inf | infinity | digitpart and/or
\* "." digitpart, then an optional e [sign] digitpart)
float(text) == FloatStripped(lower(strip(text)))

(***************************************************************************)
(* re.search of the pattern  digits, optional dot, digits : the text of    *)
(* the leftmost match, or <<>> when there is no match.                     *)
(***************************************************************************)
RECURSIVE DigitRunEnd(_, _)
\* index of the last character of the run of digits that starts at i
\* (i - 1 when s[i] is not a digit)
DigitRunEnd(s, i) ==
  IF i <= Len(s) /\ s[i] \in Digits THEN DigitRunEnd(s, i + 1) ELSE i - 1

\* the pattern anchored at the start of the text (re.match for re.search)
re_match_number(s) ==
  IF Len(s) > 0 /\ s[1] \in Digits
    THEN LET j == DigitRunEnd(s, 1)
             k == IF j < Len(s) /\ s[j + 1] = "." THEN DigitRunEnd(s, j + 2) ELSE j
         IN  SubSeq(s, 1, k)
    ELSE <<>>

re_search_number(s) ==
  LET i == FirstIndex(s, Digits)
  IN  IF i = 0 THEN <<>>
      ELSE LET j == DigitRunEnd(s, i)
               k == IF j < Len(s) /\ s[j + 1] = "." THEN DigitRunEnd(s, j + 2) ELSE j
           IN  SubSeq(s, i, k)

(***************************************************************************)
(* clean_salary_value(value).  A cell is [none, text]: Python's None or a  *)
(* str.  The result is PyNone, a float, or an escaping exception.          *)
(***************************************************************************)
Cell(t) == [none |-> FALSE, text |-> t]
NoneCell == [none |-> TRUE, text |-> <<>>]

\* only the dollar sign removed
clean_val_keep_commas(v) == replace(strip(v.text), "$")

clean_val_of(v) == replace(replace(strip(v.text), "$"), ",")

AttributeError == [k |-> "AttributeError", neg |-> FALSE, m |-> 0, e |-> 0]

\* without the "not value" test: None.strip() raises
clean_salary_value_unguarded(v) ==
  IF v.none THEN AttributeError
  ELSE IF strip(v.text) = <<>> THEN PyNone
  ELSE LET clean_val == clean_val_of(v)
       IN  IF ContainsPer(lower(clean_val))
             THEN LET match == re_search_number(clean_val)
                  IN  IF match # <<>> THEN float(match) ELSE PyNone
           ELSE LET f == float(clean_val)
                IN  IF f = ValueError THEN PyNone ELSE f

\* without the try/except around float(): the ValueError escapes
clean_salary_value_uncaught(v) ==
  IF v.none \/ v.text = <<>> \/ strip(v.text) = <<>> THEN PyNone
  ELSE LET clean_val == clean_val_of(v)
       IN  IF ContainsPer(lower(clean_val))
             THEN LET match == re_search_number(clean_val)
                  IN  IF match # <<>> THEN float(match) ELSE PyNone
           ELSE float(clean_val)

clean_salary_value(v) ==
  IF v.none \/ v.text = <<>> \/ strip(v.text) = <<>> THEN PyNone
  ELSE LET clean_val == clean_val_of(v)
       IN  IF ContainsPer(lower(clean_val))
             THEN LET match == re_search_number(clean_val)
                  IN  IF match # <<>> THEN float(match) ELSE PyNone
           ELSE LET f == float(clean_val)
                IN  IF f = ValueError THEN PyNone ELSE f

(***************************************************************************)
(* Inputs of the cell specification: every text of at most MaxLen          *)
(* characters over Alphabet, the cells quoted in the documentation and     *)
(* tests, and None.                                                        *)
(***************************************************************************)
Alphabet == {"0", "5", ".", "$", ",", " ", "-", "p", "e", "r", "P", "n", "a"}

Texts == UNION {[1..n -> Alphabet] : n \in 0..MaxLen}

ExampleTexts ==
  { <<"$", "1", ",", "2", "3", "4", ".", "5", "0">>,
    <<"5", "0", " ", "p", "e", "r", " ", "i", "n", "s", "p", "e", "c", "t", "i", "o", "n">>,
    <<"$", "2", ".", "5", " ", "P", "e", "r", " ", "I", "n", "s", "p", "e", "c", "t", "i", "o", "n">>,
    <<"p", "e", "r", " ", "i", "n", "s", "p", "e", "c", "t", "i", "o", "n">>,
    <<"i", "n", "v", "a", "l", "i", "d">>,
    <<"9", "7", ".", "5">>,
    <<"-", "i", "n", "f">>,
    <<"5", "e", "3", "0", "8">>,
    <<" ", " ", "\t", " ", " ">> }

CellInputs == {NoneCell} \cup {Cell(t) : t \in Texts \cup ExampleTexts}

\* Path(csv_file).suffix of the path the scripts' __main__ passes
CsvSuffix == <<".", "c", "s", "v">>

Unset == [k |-> "unset", neg |-> FALSE, m |-> 0, e |-> 0]

LoadIdle ==
  /\ script = "none"
  /\ path_exists = FALSE
  /\ pc = "idle"
  /\ exc = "none"
  /\ headers = <<>>
  /\ town_indices = <<>>
  /\ town_colors = <<>>
  /\ row = <<>>
  /\ rows_read = 0
  /\ position_data = <<>>
  /\ dartmouth_data = <<>>
  /\ filtered_data = <<>>
  /\ suffix = CsvSuffix
  /\ ParserIdle
  /\ ChartIdle

InitCell ==
  /\ value \in CellInputs
  /\ result = Unset
  /\ LoadIdle

\* one call  result = clean_salary_value(value)
CallClean ==
  /\ pc = "idle"
  /\ result = Unset
  /\ result' = clean_salary_value(value)
  /\ UNCHANGED <<value, loadVars, otherVars>>

NextCell == CallClean

SpecCell == InitCell /\ [][NextCell]_vars

(***************************************************************************)
(* Python dicts: a sequence of [key, val] in insertion order.              *)
(***************************************************************************)
DictHas(d, key) == \E i \in 1..Len(d) : d[i].key = key
DictIndex(d, key) == CHOOSE i \in 1..Len(d) : d[i].key = key
DictGet(d, key) == d[DictIndex(d, key)].val
\* every assignment adds an item, as for a list of pairs
DictSet_append(d, key, val) == Append(d, [key |-> key, val |-> val])

\* d[key] = val : a present key keeps its place, a new key goes last
DictSet(d, key, val) ==
  IF DictHas(d, key)
    THEN [d EXCEPT ![DictIndex(d, key)] = [key |-> key, val |-> val]]
    ELSE Append(d, [key |-> key, val |-> val])
DictKeys(d) == [i \in 1..Len(d) |-> d[i].key]
KeySet(d) == {d[i].key : i \in 1..Len(d)}

(***************************************************************************)
(* Input tables.                                                           *)
(***************************************************************************)
MaxRows == 2
MaxCols == 2

PositionTitle == <<"P", "O", "S", "I", "T", "I", "O", "N", " ", "T", "I", "T", "L", "E">>
EmployerA == <<"E", "m", "p", "l", "o", "y", "e", "r", " ", "A">>
EmployerAPadded == <<" ", "E", "m", "p", "l", "o", "y", "e", "r", " ", "A", " ">>
CompAverage == <<"C", "o", "m", "p", " ", "A", "v", "e", "r", "a", "g", "e">>
CompDataPoints == <<"C", "o", "m", "p", " ", "D", "a", "t", "a", " ", "P", "o", "i", "n", "t", "s">>
ERI == <<"E", "R", "I">>
Percentile60 == <<"6", "0", "t", "h", " ", "P", "e", "r", "c", "e", "n", "t", "i", "l", "e">>

\* the summary columns of the survey sheet, which are not employers
MetadataLabels == {CompAverage, CompDataPoints, ERI, Percentile60}

ColumnNames == {EmployerA, CompAverage}

\* header rows: the title column and up to MaxCols further columns, the
\* sheet's own shape (employers, then three summary columns), the header of
\* the cleaning test, a padded name, and a blank first line
HeaderRows ==
  {<<PositionTitle>> \o h : h \in UNION {[1..n -> ColumnNames] : n \in 0..MaxCols}}
  \cup { <<PositionTitle, EmployerA, ERI, CompDataPoints, Percentile60>>,
         <<PositionTitle, EmployerA, CompAverage, CompDataPoints>>,
         <<PositionTitle, EmployerAPadded>>,
         <<>> }

Clerk == <<"C", "l", "e", "r", "k">>
ChiefPadded == <<" ", "C", "h", "i", "e", "f", " ">>
Chief == <<"C", "h", "i", "e", "f">>
AlternateBuildingInspector ==
  <<"A", "l", "t", "e", "r", "n", "a", "t", "e", " ", "B", "u", "i", "l", "d", "i", "n", "g",
    " ", "I", "n", "s", "p", "e", "c", "t", "o", "r">>
AlternateGasPlumbingInspector ==
  <<"A", "l", "t", "e", "r", "n", "a", "t", "e", " ", "G", "a", "s", "/", "P", "l", "u", "m",
    "b", "i", "n", "g", " ", "I", "n", "s", "p", "e", "c", "t", "o", "r">>
AlternateWireInspector ==
  <<"A", "l", "t", "e", "r", "n", "a", "t", "e", " ", "W", "i", "r", "e", " ", "I", "n", "s",
    "p", "e", "c", "t", "o", "r">>

inspector_positions ==
  {AlternateBuildingInspector, AlternateGasPlumbingInspector, AlternateWireInspector}

Titles == {<<" ">>, Clerk, ChiefPadded, AlternateWireInspector}

\* salary cells: blank, text that is no number, a currency amount, a
\* negative number
TableCells ==
  { <<>>, <<"n", "/", "a">>, <<"$", "1", ",", "0", "0", "0">>, <<"-", "5">> }

\* headers[1:-3] if len(headers) > 3 else headers[1:]
employer_headers_of(h) ==
  IF Len(h) > 3 THEN SubSeq(h, 2, Len(h) - 3) ELSE SubSeq(h, 2, Len(h))

\* the widest block of employer columns among the header rows: the loaders
\* read no cell to the right of it
EmployerWidth ==
  CHOOSE n \in 0..(MaxCols + 3) :
    /\ \E h \in HeaderRows : Len(employer_headers_of(h)) = n
    /\ \A h \in HeaderRows : Len(employer_headers_of(h)) <= n

\* data rows as csv.reader yields them: a blank line is [], a ragged row is
\* shorter than the header
DataRows ==
  {<<>>} \cup
  UNION {{<<t>> \o c : t \in Titles, c \in [1..n -> TableCells]} : n \in 0..EmployerWidth}

\* load_dartmouth_data reads the title and the first salary cell only
DartmouthRows == {r \in DataRows : Len(r) <= 2}

(***************************************************************************)
(* load_comparison_data (compare_to_first_employer.py)                     *)
(***************************************************************************)
RECURSIVE BuildIndices(_, _, _)
\* town_indices[header.strip()] = i + 1  for i, header in enumerate(eh);
\* the value is the 0-based column of the row
BuildIndices(eh, i, d) ==
  IF i > Len(eh) THEN d
  ELSE BuildIndices(eh, i + 1, DictSet(d, strip(eh[i]), i))

RECURSIVE BuildColors(_, _, _)
\* town_colors[employer.strip()] = colors[i % len(colors)], tab20 has 20 colors
BuildColors(eh, i, d) ==
  IF i > Len(eh) THEN d
  ELSE BuildColors(eh, i + 1, DictSet(d, strip(eh[i]), (i - 1) % 20))

\* only the length test
RowSkipped_length_only(r) == Len(r) < 2

RowSkipped(r) == Len(r) < 2 \/ strip(r[1]) = <<>>

RECURSIVE ExtractRow_zero_fill(_, _, _, _)
\* a cell without a value stored as 0
ExtractRow_zero_fill(r, ti, i, acc) ==
  IF i > Len(ti) THEN [exc |-> "none", data |-> acc]
  ELSE IF ti[i].val + 1 > Len(r) THEN [exc |-> "IndexError", data |-> acc]
  ELSE ExtractRow_zero_fill(r, ti, i + 1,
         DictSet(acc, ti[i].key,
                 IF clean_salary_value(Cell(r[ti[i].val + 1])) = PyNone
                   THEN Norm(FALSE, 0, 0)
                   ELSE clean_salary_value(Cell(r[ti[i].val + 1]))))

RECURSIVE ExtractRow(_, _, _, _)
\* for employer, col_idx in town_indices.items(): ... over items i..end;
\* acc is position_data[position] so far.  A column the row does not have
\* raises IndexError; an exception of clean_salary_value propagates.
ExtractRow(r, ti, i, acc) ==
  IF i > Len(ti) THEN [exc |-> "none", data |-> acc]
  ELSE IF ti[i].val + 1 > Len(r) THEN [exc |-> "IndexError", data |-> acc]
  ELSE LET salary_value == clean_salary_value(Cell(r[ti[i].val + 1]))
       IN  IF salary_value.k \in {"ValueError", "AttributeError"}
             THEN [exc |-> salary_value.k, data |-> acc]
           ELSE IF salary_value # PyNone
             THEN ExtractRow(r, ti, i + 1, DictSet(acc, ti[i].key, salary_value))
           ELSE ExtractRow(r, ti, i + 1, acc)

InitLoad ==
  /\ value = NoneCell
  /\ result = Unset
  /\ script \in {"compare", "dartmouth"}
  /\ path_exists \in BOOLEAN
  /\ pc = "start"
  /\ exc = "none"
  /\ headers = <<>>
  /\ town_indices = <<>>
  /\ town_colors = <<>>
  /\ row = <<>>
  /\ rows_read = 0
  /\ position_data = <<>>
  /\ dartmouth_data = <<>>
  /\ filtered_data = <<>>
  /\ suffix = CsvSuffix
  /\ ParserIdle
  /\ ChartIdle

\* the open succeeds whether or not the path exists
OpenFile_ignore_missing ==
  /\ pc = "start"
  /\ pc' = "opened"
  /\ UNCHANGED <<cellVars, otherVars, script, path_exists, exc, headers, town_indices,
                 town_colors, row, rows_read, position_data, dartmouth_data,
                 filtered_data>>

\* open(csv_file, 'r'): a missing path raises FileNotFoundError
OpenFile ==
  /\ pc = "start"
  /\ IF path_exists
       THEN pc' = "opened" /\ exc' = exc
       ELSE pc' = "raised" /\ exc' = "FileNotFoundError"
  /\ UNCHANGED <<cellVars, otherVars, script, path_exists, headers, town_indices, town_colors,
                 row, rows_read, position_data, dartmouth_data, filtered_data>>

\* headers = next(reader) on a file with no line at all
HeaderMissing ==
  /\ pc = "opened"
  /\ pc' = "raised"
  /\ exc' = "StopIteration"
  /\ UNCHANGED <<cellVars, otherVars, script, path_exists, headers, town_indices, town_colors,
                 row, rows_read, position_data, dartmouth_data, filtered_data>>

\* headers = next(reader) and the employer columns, indices and colors
CompareReadHeader ==
  /\ script = "compare"
  /\ pc = "opened"
  /\ \E h \in HeaderRows :
       /\ headers' = h
       /\ town_indices' = BuildIndices(employer_headers_of(h), 1, <<>>)
       /\ town_colors' = BuildColors(employer_headers_of(h), 1, <<>>)
  /\ pc' = "rows"
  /\ UNCHANGED <<cellVars, otherVars, script, path_exists, exc, row, rows_read, position_data,
                 dartmouth_data, filtered_data>>

\* a repeated title adds its values to the mapping already there
CompareRow_merge ==
  /\ script = "compare"
  /\ pc = "rows"
  /\ rows_read < MaxRows
  /\ \E r \in DataRows :
       /\ row' = r
       /\ rows_read' = rows_read + 1
       /\ IF RowSkipped(r) \/ strip(r[1]) \in inspector_positions
            THEN UNCHANGED <<pc, exc, position_data>>
            ELSE LET position == strip(r[1])
                     x == ExtractRow(r, town_indices, 1,
                                     IF DictHas(position_data, position)
                                       THEN DictGet(position_data, position)
                                       ELSE <<>>)
                 IN  /\ position_data' = DictSet(position_data, position, x.data)
                     /\ exc' = x.exc
                     /\ pc' = IF x.exc = "none" THEN "rows" ELSE "raised"
  /\ UNCHANGED <<cellVars, otherVars, script, path_exists, headers, town_indices, town_colors,
                 dartmouth_data, filtered_data>>

\* one iteration of  for row in reader
CompareRow ==
  /\ script = "compare"
  /\ pc = "rows"
  /\ rows_read < MaxRows
  /\ \E r \in DataRows :
       /\ row' = r
       /\ rows_read' = rows_read + 1
       /\ IF RowSkipped(r) \/ strip(r[1]) \in inspector_positions
            THEN UNCHANGED <<pc, exc, position_data>>
            ELSE LET position == strip(r[1])
                     x == ExtractRow(r, town_indices, 1, <<>>)
                 IN  /\ position_data' = DictSet(position_data, position, x.data)
                     /\ exc' = x.exc
                     /\ pc' = IF x.exc = "none" THEN "rows" ELSE "raised"
  /\ UNCHANGED <<cellVars, otherVars, script, path_exists, headers, town_indices, town_colors,
                 dartmouth_data, filtered_data>>

\* a return that indexes the first data row
CompareReturn_needs_rows ==
  /\ script = "compare"
  /\ pc = "rows"
  /\ IF rows_read = 0
       THEN pc' = "raised" /\ exc' = "IndexError"
       ELSE pc' = "returned" /\ exc' = exc
  /\ UNCHANGED <<cellVars, otherVars, script, path_exists, headers, town_indices,
                 town_colors, row, rows_read, position_data, dartmouth_data,
                 filtered_data>>

\* the reader is exhausted: return position_data, town_colors
CompareReturn ==
  /\ script = "compare"
  /\ pc = "rows"
  /\ pc' = "returned"
  /\ UNCHANGED <<cellVars, otherVars, script, path_exists, exc, headers, town_indices,
                 town_colors, row, rows_read, position_data, dartmouth_data, filtered_data>>

(***************************************************************************)
(* load_dartmouth_data (visualize_dartmouth_original.py)                   *)
(***************************************************************************)
\* headers = next(reader): the header row is read and never used
DartmouthReadHeader ==
  /\ script = "dartmouth"
  /\ pc = "opened"
  /\ pc' = "rows"
  /\ UNCHANGED <<cellVars, otherVars, script, path_exists, exc, headers, town_indices,
                 town_colors, row, rows_read, position_data, dartmouth_data, filtered_data>>

DartmouthRow ==
  /\ script = "dartmouth"
  /\ pc = "rows"
  /\ rows_read < MaxRows
  /\ \E r \in DartmouthRows :
       /\ row' = r
       /\ rows_read' = rows_read + 1
       /\ IF RowSkipped(r)
            THEN UNCHANGED <<pc, exc, dartmouth_data>>
            ELSE LET position == strip(r[1])
                     dartmouth_salary == clean_salary_value(Cell(r[2]))
                 IN  IF dartmouth_salary.k \in {"ValueError", "AttributeError"}
                       THEN /\ pc' = "raised"
                            /\ exc' = dartmouth_salary.k
                            /\ UNCHANGED dartmouth_data
                       ELSE /\ UNCHANGED <<pc, exc>>
                            /\ dartmouth_data' =
                                 IF dartmouth_salary # PyNone
                                   THEN Append(dartmouth_data,
                                               [position |-> position,
                                                salary |-> dartmouth_salary])
                                   ELSE dartmouth_data
  /\ UNCHANGED <<cellVars, otherVars, script, path_exists, headers, town_indices, town_colors,
                 position_data, filtered_data>>

DartmouthReturn ==
  /\ script = "dartmouth"
  /\ pc = "rows"
  /\ pc' = "returned"
  /\ UNCHANGED <<cellVars, otherVars, script, path_exists, exc, headers, town_indices,
                 town_colors, row, rows_read, position_data, dartmouth_data, filtered_data>>

(***************************************************************************)
(* Arithmetic on finite floats (rounding ignored).                         *)
(***************************************************************************)
Min(a, b) == IF a < b THEN a ELSE b

\* the integer  v / 10^E  for E <= v.e
Scaled(v, E) == (IF v.neg THEN 0 - 1 ELSE 1) * v.m * Pow10(v.e - E)

FloatLess(a, b) == Scaled(a, Min(a.e, b.e)) < Scaled(b, Min(a.e, b.e))

RECURSIVE MinExp(_)
\* the least exponent among the values of a dict (0 for an empty one)
MinExp(d) ==
  IF Len(d) = 0 THEN 0
  ELSE IF Len(d) = 1 THEN d[1].val.e
  ELSE Min(d[1].val.e, MinExp(Tail(d)))

RECURSIVE SumScaled(_, _)
SumScaled(d, E) ==
  IF Len(d) = 0 THEN 0 ELSE Scaled(d[1].val, E) + SumScaled(Tail(d), E)

\* sum(town_salaries.values()) / len(town_salaries) as the fraction
\* num * 10^e / den
Average(d) == [num |-> SumScaled(d, MinExp(d)), e |-> MinExp(d), den |-> Len(d)]

AvgLess(a, b) ==
  a.num * Pow10(a.e - Min(a.e, b.e)) * b.den < b.num * Pow10(b.e - Min(a.e, b.e)) * a.den

(***************************************************************************)
(* list.sort(key=..., reverse=...) as CPython does it for a list shorter   *)
(* than 64 items: the list is reversed first when reverse is set, the      *)
(* leading run is counted (and reversed when it descends), the rest is     *)
(* placed by binary insertion, and the list is reversed back.  Only  <  on *)
(* the keys is used, so a nan key, which is less than nothing, can leave   *)
(* the list out of order.  A list item is  [key |-> k, item |-> x].        *)
(***************************************************************************)
\* a float as a sort key: the fraction  num * 10^e / den
FloatKey(v) ==
  [k |-> v.k, neg |-> v.neg, num |-> (IF v.neg THEN 0 - 1 ELSE 1) * v.m,
   e |-> v.e, den |-> 1]

\* key_a < key_b  on floats: false when either is nan
KeyLess(a, b) ==
  IF a.k = "nan" \/ b.k = "nan" THEN FALSE
  ELSE IF a.k = "inf" THEN a.neg /\ ~(b.k = "inf" /\ b.neg)
  ELSE IF b.k = "inf" THEN ~b.neg
  ELSE AvgLess(a, b)

Reverse(s) == [i \in 1..Len(s) |-> s[Len(s) + 1 - i]]

RECURSIVE DescendingRunEnd(_, _)
\* the last index of the strictly descending run that holds s[1..i]
DescendingRunEnd(s, i) ==
  IF i < Len(s) /\ KeyLess(s[i + 1].key, s[i].key)
    THEN DescendingRunEnd(s, i + 1) ELSE i

RECURSIVE AscendingRunEnd(_, _)
\* the last index of the non-descending run that holds s[1..i]
AscendingRunEnd(s, i) ==
  IF i < Len(s) /\ ~KeyLess(s[i + 1].key, s[i].key)
    THEN AscendingRunEnd(s, i + 1) ELSE i

\* count_run on a list of two or more items
count_run(s) ==
  IF KeyLess(s[2].key, s[1].key)
    THEN [n |-> DescendingRunEnd(s, 2), descending |-> TRUE]
    ELSE [n |-> AscendingRunEnd(s, 2), descending |-> FALSE]

RECURSIVE BinarySearch(_, _, _, _)
\* the place of pivot among the sorted s[l..r-1]: after every item that
\* is not greater
BinarySearch(s, pivot, l, r) ==
  IF l >= r THEN l
  ELSE IF KeyLess(pivot.key, s[l + ((r - l) \div 2)].key)
    THEN BinarySearch(s, pivot, l, l + ((r - l) \div 2))
    ELSE BinarySearch(s, pivot, l + ((r - l) \div 2) + 1, r)

\* s[start] moved to index l <= start
MoveTo(s, start, l) ==
  SubSeq(s, 1, l - 1) \o <<s[start]>> \o SubSeq(s, l, start - 1)
    \o SubSeq(s, start + 1, Len(s))

RECURSIVE binarysort(_, _)
\* s[1..start-1] is sorted; the items from start on are inserted in turn
binarysort(s, start) ==
  IF start > Len(s) THEN s
  ELSE binarysort(MoveTo(s, start, BinarySearch(s, s[start], 1, start)), start + 1)

\* the leading run of n items put in ascending order
RunAscending(s, run) ==
  IF run.descending
    THEN Reverse(SubSeq(s, 1, run.n)) \o SubSeq(s, run.n + 1, Len(s))
    ELSE s

SortForward(s) ==
  IF Len(s) < 2 THEN s
  ELSE binarysort(RunAscending(s, count_run(s)), count_run(s).n + 1)

list_sort(s, reverse) ==
  IF reverse THEN Reverse(SortForward(Reverse(s))) ELSE SortForward(s)

\* the items of a sorted list
Items(s) == [i \in 1..Len(s) |-> s[i].item]

(***************************************************************************)
(* filter_highest_paid_positions (compare_to_first_employer.py)            *)
(***************************************************************************)
HasKind(d, k, neg) == \E i \in 1..Len(d) : d[i].val.k = k /\ d[i].val.neg = neg

\* sum(town_salaries.values()) / len(town_salaries)  as a sort key: nan
\* and inf as float addition gives them, else the exact fraction
AverageKey(d) ==
  IF HasKind(d, "nan", FALSE) \/ (HasKind(d, "inf", FALSE) /\ HasKind(d, "inf", TRUE))
    THEN [k |-> "nan", neg |-> FALSE, num |-> 0, e |-> 0, den |-> 1]
  ELSE IF HasKind(d, "inf", FALSE) \/ HasKind(d, "inf", TRUE)
    THEN [k |-> "inf", neg |-> HasKind(d, "inf", TRUE), num |-> 0, e |-> 0, den |-> 1]
  ELSE [k |-> "num", neg |-> FALSE, num |-> Average(d).num, e |-> Average(d).e,
        den |-> Average(d).den]

RECURSIVE position_averages_of(_)
\* [(position, avg)] for the positions with data, in dict order
position_averages_of(pd) ==
  IF Len(pd) = 0 THEN <<>>
  ELSE IF Len(pd[1].val) > 0
    THEN <<[key |-> AverageKey(pd[1].val), item |-> pd[1].key]>>
           \o position_averages_of(Tail(pd))
  ELSE position_averages_of(Tail(pd))

\* [pos[0] for pos in position_averages[:2]] if len(position_averages) >= 2 else []
positions_to_exclude_of(sorted) ==
  IF Len(sorted) >= 2 THEN {sorted[1].item, sorted[2].item} ELSE {}

KeepFiltered(pd, excluded) ==
  SelectSeq(pd, LAMBDA it : it.key \notin excluded /\ Len(it.val) > 1)

filter_highest_paid_positions(pd) ==
  KeepFiltered(pd, positions_to_exclude_of(list_sort(position_averages_of(pd), TRUE)))

(***************************************************************************)
(* filter_data_for_visualization (visualize_dartmouth_original.py and      *)
(* visualize_all_employers.py, the same text in both)                      *)
(***************************************************************************)
\* the records with the key  x['salary']
BySalary(data) == [i \in 1..Len(data) |-> [key |-> FloatKey(data[i].salary), item |-> data[i]]]

\* data.sort(key=lambda x: x['salary'], reverse=...)
sort_by_salary(data, reverse) == Items(list_sort(BySalary(data), reverse))

DropTwoHighest(sorted) ==
  IF Len(sorted) > 2 THEN SubSeq(sorted, 3, Len(sorted)) ELSE sorted

\* the inspector records left in
filter_data_keep_inspectors(data) ==
  sort_by_salary(DropTwoHighest(sort_by_salary(data, TRUE)), FALSE)

filter_data_for_visualization(data) ==
  sort_by_salary(
    DropTwoHighest(
      sort_by_salary(
        SelectSeq(data, LAMBDA item : item.position \notin inspector_positions),
        TRUE)),
    FALSE)

(***************************************************************************)
(* __main__ of the two scripts, after the load.                            *)
(***************************************************************************)
\* compare_to_first_employer: filtered_data = filter_highest_paid_positions(...)
CompareMainFilter ==
  /\ script = "compare"
  /\ pc = "returned"
  /\ filtered_data' = filter_highest_paid_positions(position_data)
  /\ pc' = "filtered"
  /\ UNCHANGED <<cellVars, otherVars, script, path_exists, exc, headers, town_indices,
                 town_colors, row, rows_read, position_data, dartmouth_data>>

\* visualize_dartmouth_original: if dartmouth_data: filter, else report no data
DartmouthMainFilter ==
  /\ script = "dartmouth"
  /\ pc = "returned"
  /\ IF Len(dartmouth_data) > 0
       THEN /\ filtered_data' = filter_data_for_visualization(dartmouth_data)
            /\ pc' = "filtered"
       ELSE /\ UNCHANGED filtered_data
            /\ pc' = "done"
  /\ UNCHANGED <<cellVars, otherVars, script, path_exists, exc, headers, town_indices,
                 town_colors, row, rows_read, position_data, dartmouth_data>>

(***************************************************************************)
(* The chart step of the two scripts: what create_comparison_visualization *)
(* and create_visualization plot and write to the HTML report.             *)
(***************************************************************************)
\* [pos for pos in position_data.keys() if first_employer in position_data[pos]]
\* with the salary the sort key reads
positions_of(pd, first_employer) ==
  [i \in 1..Len(SelectSeq(pd, LAMBDA it : DictHas(it.val, first_employer))) |->
     [position |-> SelectSeq(pd, LAMBDA it : DictHas(it.val, first_employer))[i].key,
      salary |-> DictGet(SelectSeq(pd, LAMBDA it : DictHas(it.val, first_employer))[i].val,
                         first_employer)]]

\* positions.sort(key=lambda pos: position_data[pos].get(first_employer, 0))
sorted_positions_of(pd, first_employer) ==
  sort_by_salary(positions_of(pd, first_employer), FALSE)

\* the charted positions, each with its employer mapping
charted_of(pd, positions) ==
  [i \in 1..Len(positions) |->
     [position |-> positions[i].position, salaries |-> DictGet(pd, positions[i].position)]]

\* str.replace(a, b) for one-character a and b
replace_with(s, a, b) == [i \in 1..Len(s) |-> IF s[i] = a THEN b ELSE s[i]]

\* d.get(key, 0)
DictGetOrZero(d, key) == IF DictHas(d, key) THEN DictGet(d, key) ELSE FloatZero

\* x > 0 on floats
FloatPositive(v) ==
  \/ v.k = "inf" /\ ~v.neg
  \/ v.k = "num" /\ ~v.neg /\ v.m > 0

\* a - b on floats
float_sub(a, b) ==
  IF a.k = "nan" \/ b.k = "nan" THEN NaN
  ELSE IF a.k = "inf" /\ b.k = "inf" THEN (IF a.neg = b.neg THEN NaN ELSE Inf(a.neg))
  ELSE IF a.k = "inf" THEN Inf(a.neg)
  ELSE IF b.k = "inf" THEN Inf(~b.neg)
  ELSE LET E == Min(a.e, b.e)
           d == Scaled(a, E) - Scaled(b, E)
       IN  Norm(d < 0, IF d < 0 THEN 0 - d ELSE d, E)

\* (difference / first_employer_salary) * 100 if first_employer_salary > 0 else 0,
\* as the fraction  num * 10^e / den
percentage_of(difference, first_employer_salary) ==
  IF ~FloatPositive(first_employer_salary)
    THEN [k |-> "num", neg |-> FALSE, num |-> 0, e |-> 0, den |-> 1]
  ELSE IF difference.k = "nan" \/ (difference.k = "inf" /\ first_employer_salary.k = "inf")
    THEN [k |-> "nan", neg |-> FALSE, num |-> 0, e |-> 0, den |-> 1]
  ELSE IF difference.k = "inf"
    THEN [k |-> "inf", neg |-> difference.neg, num |-> 0, e |-> 0, den |-> 1]
  ELSE IF first_employer_salary.k = "inf"
    THEN [k |-> "num", neg |-> difference.neg, num |-> 0, e |-> 0, den |-> 1]
  ELSE [k |-> "num", neg |-> difference.neg,
        num |-> (IF difference.neg THEN 0 - 1 ELSE 1) * difference.m * 100,
        e |-> difference.e - first_employer_salary.e,
        den |-> first_employer_salary.m]

RECURSIVE DifferenceItems(_, _, _, _, _)
\* for employer in town_colors.keys(): the items of one position, from the
\* j-th employer on
DifferenceItems(pos, salaries, first_employer, tc, j) ==
  IF j > Len(tc) THEN <<>>
  ELSE (IF tc[j].key # first_employer /\ FloatPositive(DictGetOrZero(salaries, tc[j].key))
          THEN <<[position |-> pos,
                  employer |-> tc[j].key,
                  first_employer |-> first_employer,
                  first_employer_salary |-> DictGetOrZero(salaries, first_employer),
                  other |-> DictGetOrZero(salaries, tc[j].key),
                  difference |-> float_sub(DictGetOrZero(salaries, tc[j].key),
                                           DictGetOrZero(salaries, first_employer)),
                  percentage |->
                    percentage_of(float_sub(DictGetOrZero(salaries, tc[j].key),
                                            DictGetOrZero(salaries, first_employer)),
                                  DictGetOrZero(salaries, first_employer))]>>
          ELSE <<>>)
       \o DifferenceItems(pos, salaries, first_employer, tc, j + 1)

RECURSIVE difference_analysis_any_baseline(_, _, _, _)
\* the items of every charted position, whatever its baseline salary
difference_analysis_any_baseline(charted, first_employer, tc, i) ==
  IF i > Len(charted) THEN <<>>
  ELSE DifferenceItems(charted[i].position, charted[i].salaries, first_employer, tc, 1)
       \o difference_analysis_any_baseline(charted, first_employer, tc, i + 1)

RECURSIVE difference_analysis_of(_, _, _, _)
\* for pos in positions: if first_employer_salary > 0: ...
difference_analysis_of(charted, first_employer, tc, i) ==
  IF i > Len(charted) THEN <<>>
  ELSE (IF FloatPositive(DictGetOrZero(charted[i].salaries, first_employer))
          THEN DifferenceItems(charted[i].position, charted[i].salaries,
                               first_employer, tc, 1)
          ELSE <<>>)
       \o difference_analysis_of(charted, first_employer, tc, i + 1)

\* 'positive' if item["difference"] > 0 else 'negative'
pos_class(item) == IF FloatPositive(item.difference) THEN "positive" ELSE "negative"

\* 'positive' if item["percentage"] > 0 else 'negative'
perc_class(item) ==
  IF (item.percentage.k = "inf" /\ ~item.percentage.neg)
     \/ (item.percentage.k = "num" /\ item.percentage.num > 0)
    THEN "positive" ELSE "negative"

ComparisonInfix ==
  <<"_", "c", "o", "m", "p", "a", "r", "i", "s", "o", "n", "_">>
SalariesInfix == <<"_", "s", "a", "l", "a", "r", "i", "e", "s", "_">>
DartmouthBase == <<"d", "a", "r", "t", "m", "o", "u", "t", "h">>

\* the three image formats and the HTML report
Formats == {"png", "jpg", "svg", "html"}

\* the files  <base><timestamp>.<fmt>  of one report
ReportFiles(base, timestamp) ==
  {[base |-> base, timestamp |-> timestamp, fmt |-> f] : f \in Formats}

\* list(town_colors.keys())[0] if town_colors else None, and  not first_employer
NoFirstEmployer(tc) == Len(tc) = 0 \/ tc[1].key = <<>>

\* the early returns of create_comparison_visualization
ComparisonReturnsNone(pd, tc) ==
  \/ Len(pd) = 0
  \/ NoFirstEmployer(tc)
  \/ Len(positions_of(pd, tc[1].key)) = 0

\* the difference analysis without the test of the baseline salary
create_comparison_visualization_any_baseline(pd, tc, timestamp) ==
  IF ComparisonReturnsNone(pd, tc)
    THEN [files |-> {}, charted |-> <<>>, analysis |-> <<>>]
    ELSE [files |->
            ReportFiles(lower(replace_with(tc[1].key, " ", "_")) \o ComparisonInfix,
                        timestamp),
          charted |-> charted_of(pd, sorted_positions_of(pd, tc[1].key)),
          analysis |->
            difference_analysis_any_baseline(
              charted_of(pd, sorted_positions_of(pd, tc[1].key)), tc[1].key, tc, 1)]

\* create_comparison_visualization(position_data, town_colors): the files
\* saved (none when it returns None), the charted positions and the
\* difference analysis of the HTML report
create_comparison_visualization(pd, tc, timestamp) ==
  IF ComparisonReturnsNone(pd, tc)
    THEN [files |-> {}, charted |-> <<>>, analysis |-> <<>>]
    ELSE [files |->
            ReportFiles(lower(replace_with(tc[1].key, " ", "_")) \o ComparisonInfix,
                        timestamp),
          charted |-> charted_of(pd, sorted_positions_of(pd, tc[1].key)),
          analysis |->
            difference_analysis_of(
              charted_of(pd, sorted_positions_of(pd, tc[1].key)), tc[1].key, tc, 1)]

\* compare_to_first_employer: if filtered_data: create_comparison_visualization
CompareChart ==
  /\ script = "compare"
  /\ pc = "filtered"
  /\ pc' = "done"
  /\ IF Len(filtered_data) = 0
       THEN UNCHANGED <<plotted, written, difference_analysis>>
       ELSE /\ plotted' = create_comparison_visualization(filtered_data, town_colors, 0).charted
            /\ written' = create_comparison_visualization(filtered_data, town_colors, 0).files
            /\ difference_analysis' =
                 create_comparison_visualization(filtered_data, town_colors, 0).analysis
  /\ UNCHANGED <<cellVars, loadFrame, exc, filtered_data, suffix, comp_data,
                 warnings, validate, data_by_employer, index_links>>

\* visualize_dartmouth_original: output_files = create_visualization(filtered_data)
\* and len(output_files); create_visualization returns None for no data
DartmouthChart ==
  /\ script = "dartmouth"
  /\ pc = "filtered"
  /\ IF Len(filtered_data) = 0
       THEN /\ pc' = "raised"
            /\ exc' = "TypeError"
            /\ UNCHANGED <<plotted, written>>
       ELSE /\ pc' = "done"
            /\ exc' = exc
            /\ plotted' = sort_by_salary(filtered_data, FALSE)
            /\ written' = ReportFiles(DartmouthBase \o SalariesInfix, 0)
  /\ UNCHANGED <<cellVars, loadFrame, filtered_data, suffix, comp_data,
                 warnings, validate, data_by_employer, index_links,
                 difference_analysis>>

NextLoad ==
  \/ CompareChart
  \/ DartmouthChart
  \/ OpenFile
  \/ HeaderMissing
  \/ CompareReadHeader
  \/ CompareRow
  \/ CompareReturn
  \/ DartmouthReadHeader
  \/ DartmouthRow
  \/ DartmouthReturn
  \/ CompareMainFilter
  \/ DartmouthMainFilter

Spec == InitLoad /\ [][NextLoad]_vars

(***************************************************************************)
(* Properties of clean_salary_value (specification SpecCell).              *)
(***************************************************************************)
Called == result # Unset
Raised(r) == r.k \in {"ValueError", "AttributeError"}
IsNumber(r) == r.k \in {"num", "nan", "inf"}

AllDigits(s) == \A i \in 1..Len(s) : s[i] \in Digits

\* digits with single commas between them
IsGroupedDigits(s) ==
  /\ Len(s) > 0
  /\ s[1] \in Digits
  /\ s[Len(s)] \in Digits
  /\ \A i \in 1..Len(s) : s[i] \in Digits \cup {","}
  /\ \A i \in 1..(Len(s) - 1) : ~(s[i] = "," /\ s[i + 1] = ",")

CurrencyBody(t) == IF Len(t) > 0 /\ t[1] = "$" THEN Tail(t) ELSE t
CurrencyInt(t) ==
  LET b == CurrencyBody(t)
      dot == FirstIndex(b, {"."})
  IN  IF dot = 0 THEN b ELSE SubSeq(b, 1, dot - 1)
CurrencyFrac(t) ==
  LET b == CurrencyBody(t)
      dot == FirstIndex(b, {"."})
  IN  IF dot = 0 THEN <<>> ELSE SubSeq(b, dot + 1, Len(b))

\* an optional "$", digits grouped by commas, an optional "." and decimals
IsCurrencyNumber(t) ==
  /\ IsGroupedDigits(CurrencyInt(t))
  /\ AllDigits(CurrencyFrac(t))
  /\ FirstIndex(CurrencyBody(t), {"."}) = 0 \/ Len(CurrencyFrac(t)) > 0

\* the decimal number the text denotes
CurrencyValue(t) ==
  Norm(FALSE,
       DigitsVal(SelectSeq(CurrencyInt(t), LAMBDA c : c \in Digits) \o CurrencyFrac(t)),
       0 - Len(CurrencyFrac(t)))

\* C1: a cell holding a non-negative decimal number written with an optional
\* "$" and thousands-separator commas parses to exactly that number, never
\* to "no value".
C1_CurrencyParsed ==
  (Called /\ ~value.none /\ IsCurrencyNumber(value.text))
    => result = CurrencyValue(value.text)

C1_Witness ==
  /\ value = Cell(<<"$", "1", ",", "2", "3", "4", ".", "5", "0">>)
  /\ result = [k |-> "num", neg |-> FALSE, m |-> 12345, e |-> 0 - 1]

IsBlank(v) == v.none \/ \A i \in 1..Len(v.text) : IsSpace(v.text[i])

\* C2: an empty, missing (None) or whitespace-only cell parses to "no value"
\* and no exception is raised.
C2_BlankIsNoValue == (Called /\ IsBlank(value)) => result = PyNone

C2_Witness ==
  /\ ~value.none
  /\ Len(value.text) > 1
  /\ IsBlank(value)
  /\ result = PyNone

\* the text left after the currency symbols and separators are stripped
Stripped(v) == SelectSeq(strip(v.text), LAMBDA c : c \notin {"$", ","})

HasQualifier(t) ==
  \E i \in 1..(Len(t) - 2) :
    LowerChar(t[i]) = "p" /\ LowerChar(t[i + 1]) = "e" /\ LowerChar(t[i + 2]) = "r"

\* t[i..k] is the first numeric token of t: it starts at the leftmost digit
\* and is the longest run of digits, then one optional "." and the digits
\* that follow it; j is the end of the integer part
IsFirstToken(t, i, j, k) ==
  /\ 1 <= i /\ i <= j /\ j <= k /\ k <= Len(t)
  /\ \A x \in 1..(i - 1) : t[x] \notin Digits
  /\ \A x \in i..j : t[x] \in Digits
  /\ j < Len(t) => t[j + 1] \notin Digits
  /\ \/ k = j /\ (j < Len(t) => t[j + 1] # ".")
     \/ /\ k > j
        /\ t[j + 1] = "."
        /\ \A x \in (j + 2)..k : t[x] \in Digits
        /\ k < Len(t) => t[k + 1] \notin Digits

TokenValue(t, i, j, k) ==
  Norm(FALSE, DigitsVal(SubSeq(t, i, j) \o SubSeq(t, j + 2, k)),
       IF k > j THEN 0 - (k - j - 1) ELSE 0)

\* C7: with a unit qualifier ("per ...") in the stripped text the result is
\* the value of the first numeric token, or "no value" when there is none;
\* without a qualifier it is the direct numeric coercion of the stripped
\* text, or "no value" when the coercion fails.
C7_QualifierOrCoercion ==
  (Called /\ ~IsBlank(value)) =>
    LET t == Stripped(value)
    IN  IF HasQualifier(t)
          THEN IF \E x \in 1..Len(t) : t[x] \in Digits
                 THEN \E i, j, k \in 1..Len(t) :
                        IsFirstToken(t, i, j, k) /\ result = TokenValue(t, i, j, k)
                 ELSE result = PyNone
          ELSE IF float(t) = ValueError THEN result = PyNone ELSE result = float(t)

C7_Witness ==
  /\ value = Cell(<<"$", "2", ".", "5", " ", "P", "e", "r", " ", "I", "n", "s", "p", "e", "c", "t", "i", "o", "n">>)
  /\ result = [k |-> "num", neg |-> FALSE, m |-> 25, e |-> 0 - 1]

C7_WitnessNoToken ==
  /\ value = Cell(<<"p", "e", "r", " ", "i", "n", "s", "p", "e", "c", "t", "i", "o", "n">>)
  /\ result = PyNone

SpecAll == (InitCell \/ InitLoad) /\ [][NextCell \/ NextLoad]_vars

(***************************************************************************)
(* Properties of the loaders (specification Spec).                         *)
(***************************************************************************)
HeaderRead == pc \in {"rows", "returned", "filtered", "done"}
IsNegative(v) == v.k \in {"num", "inf"} /\ v.neg /\ (v.k = "inf" \/ v.m > 0)
IsFiniteNonNegative(v) == v.k = "num" /\ ~IsNegative(v)

\* the last row read by load_comparison_data was stored under its title
RowStored ==
  /\ script = "compare"
  /\ HeaderRead
  /\ rows_read > 0
  /\ Len(row) >= 2
  /\ \E i \in 1..Len(row[1]) : ~IsSpace(row[1][i])
  /\ strip(row[1]) \notin inspector_positions

\* the cell of the last row in the column of an employer
CellFor(employer) == row[DictGet(town_indices, employer) + 1]
Parsed(t) == clean_salary_value(Cell(t))

\* C3 (the claim as stated): every leaf value of the Dataset is a finite,
\* non-negative number, whatever the cell text.
C3_LeavesFiniteNonNegative ==
  /\ \A i \in 1..Len(position_data) :
       \A j \in 1..Len(position_data[i].val) :
         IsFiniteNonNegative(position_data[i].val[j].val)
  /\ \A i \in 1..Len(dartmouth_data) : IsFiniteNonNegative(dartmouth_data[i].salary)

\* the employer columns the claim expects: every column after the title
\* column whose name is no metadata label
ExpectedEmployers ==
  {strip(headers[i]) : i \in 2..Len(headers)} \ MetadataLabels

\* C4 (the claim as stated): the employer keys are exactly the header
\* columns after the position-title column that are not metadata labels.
C4_EmployersAreNonMetadataColumns ==
  (script = "compare" /\ HeaderRead) => KeySet(town_indices) = ExpectedEmployers

\* C5: a (position, employer) entry exists only if that cell parsed to a
\* number; a missing or unparseable cell leaves the employer key absent and
\* is never stored as 0 or None.
C5_EntryOnlyIfParsed ==
  /\ \A i \in 1..Len(position_data) :
       \A j \in 1..Len(position_data[i].val) :
         IsNumber(position_data[i].val[j].val)
  /\ RowStored =>
       /\ DictHas(position_data, strip(row[1]))
       /\ \A employer \in KeySet(town_indices) :
            IF Parsed(CellFor(employer)) = PyNone
              THEN ~DictHas(DictGet(position_data, strip(row[1])), employer)
              ELSE /\ DictHas(DictGet(position_data, strip(row[1])), employer)
                   /\ DictGet(DictGet(position_data, strip(row[1])), employer)
                        = Parsed(CellFor(employer))

C5_Witness ==
  /\ RowStored
  /\ Len(town_indices) = 2
  /\ Len(row) = 3
  /\ row[2] = <<"$", "1", ",", "0", "0", "0">>
  /\ row[3] = <<>>
  /\ Len(DictGet(position_data, strip(row[1]))) = 1

\* the last row read has, in an employer column, text that is no number
RowHasUnparseableCell ==
  \E i \in 1..Len(town_indices) :
    /\ town_indices[i].val + 1 <= Len(row)
    /\ strip(row[town_indices[i].val + 1]) # <<>>
    /\ Parsed(row[town_indices[i].val + 1]) = PyNone

\* C6: a cell that cannot be parsed never aborts the run: clean_salary_value
\* returns a number or "no value" for any cell text, and the loader still
\* stores every other parseable cell of the row and goes on to later rows.
C6_UnparseableCellNeverAborts ==
  /\ (Called /\ ~value.none) => (result = PyNone \/ IsNumber(result))
  /\ exc \notin {"ValueError", "AttributeError"}
  /\ (script = "compare" /\ rows_read > 0 /\ Len(row) >= 2
      /\ strip(row[1]) # <<>> /\ strip(row[1]) \notin inspector_positions
      /\ RowHasUnparseableCell
      /\ \A i \in 1..Len(town_indices) : town_indices[i].val + 1 <= Len(row)) =>
       /\ pc # "raised"
       /\ \A i \in 1..Len(town_indices) :
            Parsed(row[town_indices[i].val + 1]) # PyNone =>
              /\ DictHas(DictGet(position_data, strip(row[1])), town_indices[i].key)
              /\ DictGet(DictGet(position_data, strip(row[1])), town_indices[i].key)
                   = Parsed(row[town_indices[i].val + 1])

C6_Witness ==
  /\ script = "compare"
  /\ pc = "rows"
  /\ rows_read = 1
  /\ Len(town_indices) = 2
  /\ Len(row) = 3
  /\ row[2] = <<"n", "/", "a">>
  /\ row[3] = <<"$", "1", ",", "0", "0", "0">>
  /\ Len(position_data) = 1
  /\ Len(position_data[1].val) = 1
  /\ position_data[1].val[1].key = town_indices[2].key

HasNonSpace(t) == \E i \in 1..Len(t) : ~IsSpace(t[i])

\* C8: no Dataset key is an empty or whitespace-only position title: a row
\* whose title cell is empty or missing is skipped and adds no entry.
C8_NoBlankPositionKey ==
  /\ \A i \in 1..Len(position_data) : HasNonSpace(position_data[i].key)
  /\ \A i \in 1..Len(dartmouth_data) : HasNonSpace(dartmouth_data[i].position)
  /\ (HeaderRead /\ rows_read = 1 /\ (Len(row) < 2 \/ ~HasNonSpace(row[1]))) =>
       (position_data = <<>> /\ dartmouth_data = <<>>)

C8_Witness ==
  /\ script = "compare"
  /\ pc = "returned"
  /\ rows_read = 1
  /\ Len(town_indices) = 1
  /\ Len(row) = 2
  /\ row[1] = <<" ">>
  /\ row[2] = <<"$", "1", ",", "0", "0", "0">>
  /\ position_data = <<>>

\* C9: a file that holds only a header row loads to an empty Dataset and no
\* exception is raised.
C9_HeaderOnlyFileLoadsEmpty ==
  (path_exists /\ rows_read = 0 /\ pc \notin {"start", "opened"}) =>
    /\ exc \in {"none", "StopIteration"}
    /\ exc = "StopIteration" => (pc = "raised" /\ headers = <<>>)
    /\ position_data = <<>>
    /\ dartmouth_data = <<>>
    /\ filtered_data = <<>>

C9_Witness ==
  /\ script = "compare"
  /\ pc = "returned"
  /\ rows_read = 0
  /\ headers = <<PositionTitle, EmployerA>>
  /\ exc = "none"
  /\ position_data = <<>>

C9_WitnessDartmouth ==
  /\ script = "dartmouth"
  /\ pc = "returned"
  /\ rows_read = 0
  /\ exc = "none"
  /\ dartmouth_data = <<>>

\* C10: loading a path that does not exist fails with FileNotFoundError,
\* which propagates: no Dataset is produced and no later step runs.
C10_MissingFileRaises ==
  ~path_exists =>
    /\ pc \in {"start", "raised"}
    /\ pc = "raised" => exc = "FileNotFoundError"
    /\ headers = <<>> /\ town_indices = <<>> /\ town_colors = <<>>
    /\ rows_read = 0
    /\ position_data = <<>> /\ dartmouth_data = <<>> /\ filtered_data = <<>>

C10_Witness ==
  /\ script = "compare"
  /\ ~path_exists
  /\ pc = "raised"
  /\ exc = "FileNotFoundError"

(***************************************************************************)
(* visualize_all_employers.py: load_all_employer_data, then __main__ with  *)
(* create_employer_visualization for every employer that has records.      *)
(***************************************************************************)
\* employers = headers[2:18]
employers_of(h) == SubSeq(h, 3, Min(Len(h), 18))

RECURSIVE InitLists(_, _, _)
\* data_by_employer[employer.strip()] = []  for each employer
InitLists(employers, i, d) ==
  IF i > Len(employers) THEN d
  ELSE InitLists(employers, i + 1, DictSet(d, strip(employers[i]), <<>>))

RECURSIVE ExtractEmployers(_, _, _, _, _)
\* for i, employer in enumerate(employers): the cell is row[i + 2]; a cell
\* with a value appends a record to the list of the employer
ExtractEmployers(r, employers, i, position, d) ==
  IF i > Len(employers) THEN [exc |-> "none", data |-> d]
  ELSE IF i + 2 > Len(r) THEN [exc |-> "IndexError", data |-> d]
  ELSE LET salary_value == clean_salary_value(Cell(r[i + 2]))
       IN  IF salary_value.k \in {"ValueError", "AttributeError"}
             THEN [exc |-> salary_value.k, data |-> d]
           ELSE IF salary_value # PyNone
             THEN ExtractEmployers(r, employers, i + 1, position,
                    DictSet(d, strip(employers[i]),
                            Append(DictGet(d, strip(employers[i])),
                                   [position |-> position, salary |-> salary_value])))
           ELSE ExtractEmployers(r, employers, i + 1, position, d)

InitEmployers ==
  /\ value = NoneCell
  /\ result = Unset
  /\ script = "all"
  /\ path_exists \in BOOLEAN
  /\ pc = "start"
  /\ exc = "none"
  /\ headers = <<>>
  /\ town_indices = <<>>
  /\ town_colors = <<>>
  /\ row = <<>>
  /\ rows_read = 0
  /\ position_data = <<>>
  /\ dartmouth_data = <<>>
  /\ filtered_data = <<>>
  /\ suffix = CsvSuffix
  /\ ParserIdle
  /\ ChartIdle

employersFrame == <<cellVars, script, path_exists, town_indices, town_colors,
                    position_data, dartmouth_data, filtered_data, suffix,
                    comp_data, warnings, validate>>

\* headers = next(reader), the employer columns and their empty lists
EmployersReadHeader ==
  /\ script = "all"
  /\ pc = "opened"
  /\ \E h \in HeaderRows :
       /\ headers' = h
       /\ data_by_employer' = InitLists(employers_of(h), 1, <<>>)
  /\ pc' = "rows"
  /\ UNCHANGED <<employersFrame, exc, row, rows_read, plotted, reportVars>>

\* one iteration of  for row in reader
EmployersRow ==
  /\ script = "all"
  /\ pc = "rows"
  /\ rows_read < MaxRows
  /\ \E r \in DataRows :
       /\ row' = r
       /\ rows_read' = rows_read + 1
       /\ IF RowSkipped(r)
            THEN UNCHANGED <<pc, exc, data_by_employer>>
            ELSE LET x == ExtractEmployers(r, employers_of(headers), 1, strip(r[1]),
                                           data_by_employer)
                 IN  /\ data_by_employer' = x.data
                     /\ exc' = x.exc
                     /\ pc' = IF x.exc = "none" THEN "rows" ELSE "raised"
  /\ UNCHANGED <<employersFrame, headers, plotted, reportVars>>

\* the reader is exhausted: return data_by_employer
EmployersReturn ==
  /\ script = "all"
  /\ pc = "rows"
  /\ pc' = "returned"
  /\ UNCHANGED <<employersFrame, exc, headers, row, rows_read, data_by_employer,
                 plotted, reportVars>>

RECURSIVE employer_charts_of(_)
\* for employer, data in employer_data.items(): if data:
\* create_employer_visualization(data, employer), which plots the filtered
\* records unless none is left
employer_charts_of(employer_data) ==
  IF Len(employer_data) = 0 THEN <<>>
  ELSE (IF Len(employer_data[1].val) > 0
           /\ Len(filter_data_for_visualization(employer_data[1].val)) > 0
          THEN <<[employer |-> employer_data[1].key,
                  data |-> filter_data_for_visualization(employer_data[1].val)]>>
          ELSE <<>>)
       \o employer_charts_of(Tail(employer_data))

\* the seconds the clock may advance between the timestamp of __main__ and
\* the timestamp of a report
MaxTick == 1

EmployersIndexBase ==
  <<"e", "m", "p", "l", "o", "y", "e", "r", "s", "_", "i", "n", "d", "e", "x", "_">>

\* base_filename of create_employer_visualization without its timestamp
employer_base(employer_name) == replace_with(employer_name, " ", "_") \o SalariesInfix

\* the timestamps datetime.now() gives the reports, in the order of the calls
Timestamps(n) ==
  {ts \in [1..n -> 0..MaxTick] : \A i \in 1..(n - 1) : ts[i] <= ts[i + 1]}

\* the files the calls of create_employer_visualization save
employer_files_of(charts, ts) ==
  UNION {ReportFiles(employer_base(charts[i].employer), ts[i]) : i \in 1..Len(charts)}

\* create_summary_index(employers, timestamp): the href of every card
index_links_of(employers, timestamp) ==
  {[base |-> employer_base(employers[i]), timestamp |-> timestamp, fmt |-> "html"] :
     i \in 1..Len(employers)}

\* __main__ after the load: timestamp, the charts, the index page when there
\* is an employer, and the closing lines; index_path is unbound without
\* employers
EmployersMain ==
  /\ script = "all"
  /\ pc = "returned"
  /\ plotted' = employer_charts_of(data_by_employer)
  /\ \E ts \in Timestamps(Len(employer_charts_of(data_by_employer))) :
       written' =
         employer_files_of(employer_charts_of(data_by_employer), ts)
         \cup (IF Len(data_by_employer) > 0
                 THEN {[base |-> EmployersIndexBase, timestamp |-> 0, fmt |-> "html"]}
                 ELSE {})
  /\ index_links' =
       IF Len(data_by_employer) > 0
         THEN index_links_of(DictKeys(data_by_employer), 0)
         ELSE {}
  /\ IF Len(data_by_employer) > 0
       THEN pc' = "done" /\ exc' = exc
       ELSE pc' = "raised" /\ exc' = "NameError"
  /\ UNCHANGED <<employersFrame, headers, row, rows_read, data_by_employer,
                 difference_analysis>>

NextEmployers ==
  \/ OpenFile
  \/ HeaderMissing
  \/ EmployersReadHeader
  \/ EmployersRow
  \/ EmployersReturn
  \/ EmployersMain

\* the three scripts
SpecFlows == (InitLoad \/ InitEmployers) /\ [][NextLoad \/ NextEmployers]_vars

(***************************************************************************)
(* load_comparison_data called on any path: the extension of the path is  *)
(* an input, the file holds the same text whatever its name.               *)
(***************************************************************************)
TxtSuffix == <<".", "t", "x", "t">>
Suffixes == {CsvSuffix, TxtSuffix}

InitPath ==
  /\ value = NoneCell
  /\ result = Unset
  /\ script = "compare"
  /\ path_exists \in BOOLEAN
  /\ pc = "start"
  /\ exc = "none"
  /\ headers = <<>>
  /\ town_indices = <<>>
  /\ town_colors = <<>>
  /\ row = <<>>
  /\ rows_read = 0
  /\ position_data = <<>>
  /\ dartmouth_data = <<>>
  /\ filtered_data = <<>>
  /\ suffix \in Suffixes
  /\ ParserIdle
  /\ ChartIdle

NextCompare ==
  \/ OpenFile
  \/ HeaderMissing
  \/ CompareReadHeader
  \/ CompareRow
  \/ CompareReturn
  \/ CompareMainFilter
  \/ CompareChart

SpecPath == InitPath /\ [][NextCompare]_vars

\* the extensions the parser is to support
SUPPORTED_FORMATS ==
  { CsvSuffix, <<".", "x", "l", "s">>, <<".", "x", "l", "s", "x">>,
    <<".", "o", "d", "s">> }

UnsupportedFormat == "ValueError: Unsupported file format"

\* C11: an existing file is accepted if and only if its extension is one of
\* .csv, .xls, .xlsx, .ods; with any other extension the load raises the
\* unsupported-format ValueError before the header or any row is read.
C11_UnsupportedFormatRejected ==
  (path_exists /\ suffix \notin SUPPORTED_FORMATS)
    => /\ pc \in {"start", "raised"}
       /\ pc = "raised" => exc = UnsupportedFormat

(***************************************************************************)
(* CompensationDataParser.validate_data and process (module data_parser).  *)
(* A Dataset is a dict  position -> dict  employer -> (low, high).         *)
(***************************************************************************)
MaxPositions == 2
MaxEntries == 1

DigitChar(i) == <<"0", "1", "2", "3", "4", "5", "6", "7", "8", "9">>[i + 1]

\* the names "Position i" and "Employer i"
PositionName(i) == <<"P", "o", "s", "i", "t", "i", "o", "n", " ">> \o <<DigitChar(i)>>
EmployerName(i) == <<"E", "m", "p", "l", "o", "y", "e", "r", " ">> \o <<DigitChar(i)>>

\* the ranges (low, high): in order, inverted, equal, negative low,
\* negative high, negative and inverted
Ranges ==
  { [low |-> Norm(FALSE, 80, 0), high |-> Norm(FALSE, 100, 0)],
    [low |-> Norm(FALSE, 100, 0), high |-> Norm(FALSE, 80, 0)],
    [low |-> Norm(FALSE, 80, 0), high |-> Norm(FALSE, 80, 0)],
    [low |-> Norm(TRUE, 10, 0), high |-> Norm(FALSE, 80, 0)],
    [low |-> Norm(FALSE, 0, 0), high |-> Norm(TRUE, 10, 0)] }

\* the employer mappings: the first n employers, each with a range
EmployerMaps ==
  UNION { { [i \in 1..n |-> [key |-> EmployerName(i), val |-> f[i]]] :
              f \in [1..n -> Ranges] } : n \in 0..MaxEntries }

\* the Datasets of the first n positions
Datasets(n) ==
  { [i \in 1..n |-> [key |-> PositionName(i), val |-> f[i]]] :
      f \in [1..n -> EmployerMaps] }

NoDataText == <<" ", "h", "a", "s", " ", "n", "o", " ", "c", "o", "m", "p", "e", "n", "s", "a", "t", "i", "o", "n", " ", "d", "a", "t", "a">>
NegativeText == <<"N", "e", "g", "a", "t", "i", "v", "e", " ", "c", "o", "m", "p", "e", "n", "s", "a", "t", "i", "o", "n", " ", "v", "a", "l", "u", "e", " ", "f", "o", "r", " ">>
LowValueText == <<"L", "o", "w", " ", "v", "a", "l", "u", "e", " ", "f", "o", "r", " ">>
ExceedsText == <<" ", "e", "x", "c", "e", "e", "d", "s", " ", "h", "i", "g", "h", " ", "v", "a", "l", "u", "e">>
AtText == <<" ", "a", "t", " ">>


\* the inverted-range test only reached when no bound is negative
EntryWarnings_elif(position, employer, range) ==
  IF FloatLess(range.low, FloatZero) \/ FloatLess(range.high, FloatZero)
    THEN <<NegativeText \o position \o AtText \o employer>>
  ELSE IF FloatLess(range.high, range.low)
    THEN <<LowValueText \o position \o AtText \o employer \o ExceedsText>>
  ELSE <<>>

\* only the low bound tested for a negative value
EntryWarnings_low_only(position, employer, range) ==
  (IF FloatLess(range.low, FloatZero)
     THEN <<NegativeText \o position \o AtText \o employer>>
     ELSE <<>>)
  \o
  (IF FloatLess(range.high, range.low)
     THEN <<LowValueText \o position \o AtText \o employer \o ExceedsText>>
     ELSE <<>>)

\* low >= high reported as inverted
EntryWarnings_not_less(position, employer, range) ==
  (IF FloatLess(range.low, FloatZero) \/ FloatLess(range.high, FloatZero)
     THEN <<NegativeText \o position \o AtText \o employer>>
     ELSE <<>>)
  \o
  (IF ~FloatLess(range.low, range.high)
     THEN <<LowValueText \o position \o AtText \o employer \o ExceedsText>>
     ELSE <<>>)

\* the warnings of one (position, employer) entry
EntryWarnings(position, employer, range) ==
  (IF FloatLess(range.low, FloatZero) \/ FloatLess(range.high, FloatZero)
     THEN <<NegativeText \o position \o AtText \o employer>>
     ELSE <<>>)
  \o
  (IF FloatLess(range.high, range.low)
     THEN <<LowValueText \o position \o AtText \o employer \o ExceedsText>>
     ELSE <<>>)

RECURSIVE EmployerWarnings(_, _)
EmployerWarnings(position, employers) ==
  IF Len(employers) = 0 THEN <<>>
  ELSE EntryWarnings(position, employers[1].key, employers[1].val)
         \o EmployerWarnings(position, Tail(employers))

RECURSIVE validate_data_skip_empty(_)
\* a position without employers passed over in silence
validate_data_skip_empty(data) ==
  IF Len(data) = 0 THEN <<>>
  ELSE EmployerWarnings(data[1].key, data[1].val)
         \o validate_data_skip_empty(Tail(data))

RECURSIVE validate_data(_)
\* the warnings of a Dataset, position by position in dict order
validate_data(data) ==
  IF Len(data) = 0 THEN <<>>
  ELSE (IF Len(data[1].val) = 0
          THEN <<data[1].key \o NoDataText>>
          ELSE EmployerWarnings(data[1].key, data[1].val))
         \o validate_data(Tail(data))

\* a direct call  validate_data(comp_data)  or a call  process(validate)
InitParser ==
  /\ value = NoneCell
  /\ result = Unset
  /\ script \in {"validate", "process"}
  /\ path_exists = TRUE
  /\ pc = "start"
  /\ exc = "none"
  /\ headers = <<>>
  /\ town_indices = <<>>
  /\ town_colors = <<>>
  /\ row = <<>>
  /\ rows_read = 0
  /\ position_data = <<>>
  /\ dartmouth_data = <<>>
  /\ filtered_data = <<>>
  /\ suffix = CsvSuffix
  /\ ChartIdle
  /\ warnings = <<>>
  /\ IF script = "validate"
       THEN (\E n \in 0..MaxPositions : comp_data \in Datasets(n)) /\ validate = TRUE
       ELSE comp_data = <<>> /\ validate \in BOOLEAN

parserFrame == <<cellVars, script, path_exists, headers, town_indices, town_colors,
                 row, rows_read, position_data, dartmouth_data, filtered_data,
                 suffix, validate, data_by_employer, plotted, reportVars>>

\* warnings = CompensationDataParser.validate_data(comp_data)
CallValidate ==
  /\ script = "validate"
  /\ pc = "start"
  /\ warnings' = validate_data(comp_data)
  /\ pc' = "returned"
  /\ UNCHANGED <<parserFrame, exc, comp_data>>

\* process: load -> clean -> parse gives the Dataset of the file
ProcessParse ==
  /\ script = "process"
  /\ pc = "start"
  /\ \E n \in 0..MaxPositions : \E d \in Datasets(n) : comp_data' = d
  /\ pc' = "parsed"
  /\ UNCHANGED <<parserFrame, exc, warnings>>

\* validation that raises when it has something to report
ProcessValidate_raises ==
  /\ script = "process"
  /\ pc = "parsed"
  /\ validate
  /\ warnings' = validate_data(comp_data)
  /\ IF warnings' = <<>>
       THEN pc' = "validated" /\ exc' = exc
       ELSE pc' = "raised" /\ exc' = "DataValidationError"
  /\ UNCHANGED <<parserFrame, comp_data>>

\* process: if validate: warnings = validate_data(comp_data)
ProcessValidate ==
  /\ script = "process"
  /\ pc = "parsed"
  /\ validate
  /\ warnings' = validate_data(comp_data)
  /\ pc' = "validated"
  /\ UNCHANGED <<parserFrame, exc, comp_data>>

\* process: return comp_data, warnings
ProcessReturn ==
  /\ script = "process"
  /\ \/ pc = "parsed" /\ ~validate
     \/ pc = "validated"
  /\ pc' = "returned"
  /\ UNCHANGED <<parserFrame, exc, comp_data, warnings>>

NextParser ==
  \/ CallValidate
  \/ ProcessParse
  \/ ProcessValidate
  \/ ProcessReturn

SpecParser == InitParser /\ [][NextParser]_vars

(***************************************************************************)
(* Claims about validate_data and process, checked under SpecParser.       *)
(***************************************************************************)
Contains(text, sub) ==
  \E i \in 1..(Len(text) - Len(sub) + 1) : SubSeq(text, i, i + Len(sub) - 1) = sub

\* validate_data has been applied to comp_data
Validated ==
  \/ script = "validate" /\ pc = "returned"
  \/ script = "process" /\ validate /\ pc \in {"validated", "returned"}

HasWarning(sub) == \E i \in 1..Len(warnings) : Contains(warnings[i], sub)

\* the number a finite float with a non-negative exponent stands for
Amount(v) == (IF v.neg THEN 0 - 1 ELSE 1) * v.m * Pow10(v.e)

Inverted(range) == Amount(range.low) > Amount(range.high)
HasNegative(range) == Amount(range.low) < 0 \/ Amount(range.high) < 0

HasInvertedEntry ==
  \E i \in 1..Len(comp_data) :
    \E j \in 1..Len(comp_data[i].val) : Inverted(comp_data[i].val[j].val)

HasNegativeEntry ==
  \E i \in 1..Len(comp_data) :
    \E j \in 1..Len(comp_data[i].val) : HasNegative(comp_data[i].val[j].val)

HasEmptyPosition == \E i \in 1..Len(comp_data) : Len(comp_data[i].val) = 0

LowValueNeedle == <<"L", "o", "w", " ", "v", "a", "l", "u", "e">>
ExceedsNeedle == <<"e", "x", "c", "e", "e", "d", "s", " ", "h", "i", "g", "h", " ", "v", "a", "l", "u", "e">>
NegativeNeedle == <<"N", "e", "g", "a", "t", "i", "v", "e", " ", "c", "o", "m", "p", "e", "n", "s", "a", "t", "i", "o", "n">>
NoDataNeedle == <<"n", "o", " ", "c", "o", "m", "p", "e", "n", "s", "a", "t", "i", "o", "n", " ", "d", "a", "t", "a">>

\* C12: when the Dataset has an entry with low > high, the warnings hold one
\* with both the text 'Low value' and the text 'exceeds high value'.
C12_InvertedRangeWarned ==
  (Validated /\ HasInvertedEntry)
    => \E k \in 1..Len(warnings) :
         Contains(warnings[k], LowValueNeedle) /\ Contains(warnings[k], ExceedsNeedle)

\* validate_data was called on a Dataset with the entry (100, 80)
C12_Witness ==
  /\ script = "validate" /\ pc = "returned"
  /\ \E i \in 1..Len(comp_data) :
       \E j \in 1..Len(comp_data[i].val) :
         /\ Amount(comp_data[i].val[j].val.low) = 100
         /\ Amount(comp_data[i].val[j].val.high) = 80
  /\ HasWarning(LowValueNeedle)

\* C13: when the Dataset has an entry with a negative bound, the warnings
\* hold one with the text 'Negative compensation'.
C13_NegativeValueWarned ==
  (Validated /\ HasNegativeEntry) => HasWarning(NegativeNeedle)

\* validate_data was called on a Dataset whose only negative bound is a high
C13_Witness ==
  /\ script = "validate" /\ pc = "returned"
  /\ HasNegativeEntry
  /\ \A i \in 1..Len(comp_data) :
       \A j \in 1..Len(comp_data[i].val) : Amount(comp_data[i].val[j].val.low) >= 0
  /\ HasWarning(NegativeNeedle)

\* C14: when the Dataset has a position with an empty employer mapping, the
\* warnings hold one with the text 'no compensation data'.
C14_EmptyPositionWarned ==
  (Validated /\ HasEmptyPosition) => HasWarning(NoDataNeedle)

\* validate_data was called on a Dataset with an empty position after a valid one
C14_Witness ==
  /\ script = "validate" /\ pc = "returned"
  /\ Len(comp_data) = 2
  /\ Len(comp_data[1].val) > 0
  /\ Len(comp_data[2].val) = 0
  /\ HasWarning(NoDataNeedle)

\* C15: no false warnings: when every position has an employer entry and
\* every range has 0 <= low <= high, the warning list is empty.
C15_NoFalseWarnings ==
  (/\ Validated
   /\ ~HasEmptyPosition
   /\ ~HasNegativeEntry
   /\ ~HasInvertedEntry) => warnings = <<>>

\* validate_data was called on a Dataset of valid entries, one with low = high
C15_Witness ==
  /\ script = "validate" /\ pc = "returned"
  /\ Len(comp_data) > 0
  /\ ~HasEmptyPosition /\ ~HasNegativeEntry /\ ~HasInvertedEntry
  /\ \E i \in 1..Len(comp_data) :
       \E j \in 1..Len(comp_data[i].val) :
         Amount(comp_data[i].val[j].val.low) = Amount(comp_data[i].val[j].val.high)
  /\ warnings = <<>>

\* C16: validation is advisory: process raises nothing even when warnings
\* are produced, the Dataset that load, clean and parse gave is returned
\* unmodified with and without validation, and without validation the
\* warning list is empty.
C16_ValidationAdvisory ==
  /\ [](script = "process" => pc # "raised" /\ exc = "none")
  /\ []((script = "process" /\ pc = "returned" /\ ~validate) => warnings = <<>>)
  /\ [][(script = "process" /\ pc \in {"parsed", "validated"})
          => comp_data' = comp_data]_vars

\* process(validate=True) returned a Dataset together with warnings
C16_Witness ==
  /\ script = "process" /\ pc = "returned" /\ validate
  /\ warnings # <<>>
  /\ comp_data # <<>>

(***************************************************************************)
(* Claims about the keys of position_data, checked under Spec.             *)
(***************************************************************************)
\* load_comparison_data reads one more row
ReadsRow == script = "compare" /\ pc = "rows" /\ rows_read' = rows_read + 1

UniqueKeys(d) == \A i, j \in 1..Len(d) : d[i].key = d[j].key => i = j

\* the key a row with a non-empty title stands for
TitleKey(r) == IF Len(r) >= 1 /\ HasNonSpace(r[1]) THEN {strip(r[1])} ELSE {}

\* the key a row gives: the row has a title cell and one more cell, and the
\* title is neither blank nor an inspector title
StoredKey(r) ==
  IF Len(r) >= 2 /\ HasNonSpace(r[1]) /\ strip(r[1]) \notin inspector_positions
    THEN {strip(r[1])} ELSE {}

PlottedPositions ==
  IF script = "all"
    THEN UNION { { plotted[i].data[j].position : j \in 1..Len(plotted[i].data) } :
                 i \in 1..Len(plotted) }
    ELSE { plotted[i].position : i \in 1..Len(plotted) }

\* C18: in the load -> filter -> chart flow of each of the three scripts no
\* record of an inspector position reaches the plotted data.
C18_NoInspectorPlotted == PlottedPositions \cap inspector_positions = {}

\* visualize_all_employers loaded an inspector record for an employer and
\* charted that employer
C18_Witness ==
  /\ script = "all"
  /\ pc = "done"
  /\ Len(plotted) > 0
  /\ \E i \in 1..Len(data_by_employer) :
       \E j \in 1..Len(data_by_employer[i].val) :
         /\ data_by_employer[i].val[j].position \in inspector_positions
         /\ data_by_employer[i].key = plotted[1].employer

\* visualize_dartmouth_original loaded an inspector record and charted the rest
C18_WitnessDartmouth ==
  /\ script = "dartmouth"
  /\ pc = "done"
  /\ Len(plotted) > 0
  /\ \E j \in 1..Len(dartmouth_data) : dartmouth_data[j].position \in inspector_positions

\* compare_to_first_employer read an inspector row and charted another position
C18_WitnessCompare ==
  /\ script = "compare"
  /\ pc = "done"
  /\ Len(plotted) > 0
  /\ rows_read = 2
  /\ Len(row) >= 2
  /\ strip(row[1]) \in inspector_positions

(***************************************************************************)
(* The two filters called on their own, on any Dataset and any record list.*)
(***************************************************************************)
MaxFilterPositions == 3
MaxRecords == 4

\* the salaries of the inputs: a negative and a positive number, and the
\* nan that the cell "nan" parses to
FilterSalaries == {Norm(TRUE, 5, 0), Norm(FALSE, 1000, 0), NaN}

FilterEmployers == <<EmployerName(1), EmployerName(2)>>

\* the employer mappings: the first n employers, each with a salary
SalaryMaps ==
  UNION { { [i \in 1..n |-> [key |-> FilterEmployers[i], val |-> f[i]]] :
              f \in [1..n -> FilterSalaries] } : n \in 0..Len(FilterEmployers) }

\* the Datasets of the first n positions
FilterDatasets(n) ==
  { [i \in 1..n |-> [key |-> PositionName(i), val |-> f[i]]] :
      f \in [1..n -> SalaryMaps] }

FilterRecords ==
  { [position |-> p, salary |-> v] :
      p \in {Clerk, AlternateWireInspector}, v \in FilterSalaries }

InitFilter ==
  /\ value = NoneCell
  /\ result = Unset
  /\ script \in {"filter_highest", "filter_visualization"}
  /\ path_exists = TRUE
  /\ pc = "start"
  /\ exc = "none"
  /\ headers = <<>>
  /\ town_indices = <<>>
  /\ town_colors = <<>>
  /\ row = <<>>
  /\ rows_read = 0
  /\ filtered_data = <<>>
  /\ suffix = CsvSuffix
  /\ ParserIdle
  /\ ChartIdle
  /\ IF script = "filter_highest"
       THEN /\ \E n \in 0..MaxFilterPositions : position_data \in FilterDatasets(n)
            /\ dartmouth_data = <<>>
       ELSE /\ position_data = <<>>
            /\ \E n \in 0..MaxRecords : dartmouth_data \in [1..n -> FilterRecords]

\* filtered_data = filter_highest_paid_positions(position_data)
CallFilterHighest ==
  /\ script = "filter_highest"
  /\ pc = "start"
  /\ filtered_data' = filter_highest_paid_positions(position_data)
  /\ pc' = "returned"
  /\ UNCHANGED <<cellVars, loadFrame, exc, otherVars>>

\* filtered_data = filter_data_for_visualization(data)
CallFilterVisualization ==
  /\ script = "filter_visualization"
  /\ pc = "start"
  /\ filtered_data' = filter_data_for_visualization(dartmouth_data)
  /\ pc' = "returned"
  /\ UNCHANGED <<cellVars, loadFrame, exc, otherVars>>

NextFilter == CallFilterHighest \/ CallFilterVisualization

SpecFilter == InitFilter /\ [][NextFilter]_vars

(***************************************************************************)
(* Claims about the two filters, checked under SpecFilter.                 *)
(***************************************************************************)
Count(s, x) == Cardinality({i \in 1..Len(s) : s[i] = x})

\* every item of out is an item of in, no more often than in in
SubBag(out, in) == \A i \in 1..Len(out) : Count(out, out[i]) <= Count(in, out[i])

\* the items of in that out lacks
Removed(in, out) == {in[i] : i \in {j \in 1..Len(in) : Count(out, in[j]) < Count(in, in[j])}}

\* a > b  on the salaries of the inputs: never true of a nan
SalaryGreater(a, b) == a.k = "num" /\ b.k = "num" /\ Amount(a) > Amount(b)

RECURSIVE SumAmount(_)
SumAmount(d) == IF Len(d) = 0 THEN 0 ELSE Amount(d[1].val) + SumAmount(Tail(d))

HasNan(d) == \E i \in 1..Len(d) : d[i].val.k = "nan"

\* average(a) > average(b)  for two mappings with data
AverageGreater(a, b) ==
  ~HasNan(a) /\ ~HasNan(b) /\ SumAmount(a) * Len(b) > SumAmount(b) * Len(a)

WithData(pd) == SelectSeq(pd, LAMBDA it : Len(it.val) > 0)

FilterHighestReturned == script = "filter_highest" /\ pc = "returned"

\* C19: filter_highest_paid_positions returns the input minus exactly the
\* two positions with the highest average salary: the output has two fewer
\* positions, each with its employer mapping unchanged, and no position
\* left in has a higher average than one taken out.
C19_RemovesExactlyTwoHighest ==
  (FilterHighestReturned /\ Len(WithData(position_data)) >= 2)
    => /\ Len(filtered_data) = Len(position_data) - 2
       /\ SubBag(filtered_data, position_data)
       /\ \A k \in Removed(position_data, <<>>) :
            \A r \in Removed(position_data, filtered_data) :
              (Count(filtered_data, k) > 0 /\ Len(k.val) > 0 /\ Len(r.val) > 0)
                => ~AverageGreater(k.val, r.val)

NonInspector(data) == SelectSeq(data, LAMBDA item : item.position \notin inspector_positions)

FilterVisualizationReturned == script = "filter_visualization" /\ pc = "returned"

\* C20: filter_data_for_visualization keeps, of the non-inspector records,
\* all but the two with the highest salaries when there are more than 2
\* (exactly 2 are removed and no kept record has a salary greater than a
\* removed one) and all of them otherwise; no record is added or altered.
C20_KeepsAllButTwoHighest ==
  FilterVisualizationReturned
    => /\ SubBag(filtered_data, NonInspector(dartmouth_data))
       /\ IF Len(NonInspector(dartmouth_data)) > 2
            THEN /\ Len(filtered_data) = Len(NonInspector(dartmouth_data)) - 2
                 /\ \A k \in Removed(filtered_data, <<>>) :
                      \A r \in Removed(NonInspector(dartmouth_data), filtered_data) :
                        ~SalaryGreater(k.salary, r.salary)
            ELSE Len(filtered_data) = Len(NonInspector(dartmouth_data))
(***************************************************************************)
(* create_comparison_visualization called on its own, on any Dataset and   *)
(* with or without employers.                                              *)
(***************************************************************************)
MaxChartPositions == 3

\* what a position holds for the baseline employer: nothing, zero, two
\* amounts, or the nan that the cell "nan" parses to
BaselineSalaries == {PyNone, FloatZero, Norm(FALSE, 5, 0), Norm(FALSE, 1000, 0), NaN}

\* what it holds for the other employer: nothing (read as 0) or an amount
OtherSalaries == {PyNone, Norm(FALSE, 5, 0), Norm(FALSE, 1000, 0)}

\* the employer mapping with the given values (None: no entry)
ChartMap(first, other) ==
  (IF first = PyNone THEN <<>> ELSE <<[key |-> FilterEmployers[1], val |-> first]>>)
  \o (IF other = PyNone THEN <<>> ELSE <<[key |-> FilterEmployers[2], val |-> other]>>)

ChartMaps == {ChartMap(a, b) : a \in BaselineSalaries, b \in OtherSalaries}

\* the Datasets of the first n positions
ChartDatasets(n) ==
  { [i \in 1..n |-> [key |-> PositionName(i), val |-> f[i]]] :
      f \in [1..n -> ChartMaps] }

\* no employer, or the two employers with their colors
ChartColors == {<<>>, BuildColors(FilterEmployers, 1, <<>>)}

InitChart ==
  /\ value = NoneCell
  /\ result = Unset
  /\ script = "chart"
  /\ path_exists = TRUE
  /\ pc = "start"
  /\ exc = "none"
  /\ headers = <<>>
  /\ town_indices = <<>>
  /\ town_colors \in ChartColors
  /\ row = <<>>
  /\ rows_read = 0
  /\ \E n \in 0..MaxChartPositions : position_data \in ChartDatasets(n)
  /\ dartmouth_data = <<>>
  /\ filtered_data = <<>>
  /\ suffix = CsvSuffix
  /\ ParserIdle
  /\ ChartIdle

\* output_files = create_comparison_visualization(position_data, town_colors)
CallCompareChart ==
  /\ script = "chart"
  /\ pc = "start"
  /\ plotted' = create_comparison_visualization(position_data, town_colors, 0).charted
  /\ written' = create_comparison_visualization(position_data, town_colors, 0).files
  /\ difference_analysis' =
       create_comparison_visualization(position_data, town_colors, 0).analysis
  /\ pc' = "returned"
  /\ UNCHANGED <<cellVars, loadFrame, exc, filtered_data, suffix, comp_data,
                 warnings, validate, data_by_employer, index_links>>

NextChart == CallCompareChart

SpecChart == InitChart /\ [][NextChart]_vars

(***************************************************************************)
(* Claims about create_comparison_visualization, checked under SpecChart.  *)
(***************************************************************************)
ChartReturned == script = "chart" /\ pc = "returned"

\* the positions of the Dataset that have a value for the employer
PositionsWith(pd, employer) ==
  {pd[i].key : i \in {j \in 1..Len(pd) : DictHas(pd[j].val, employer)}}

\* a is a number below the number b
Below(a, b) == a.k = "num" /\ b.k = "num" /\ FloatLess(a, b)

\* C22: the charted positions are exactly the positions of the Dataset that
\* have a value for the first employer, each once, and no charted position
\* comes after one with a greater baseline value; when there is no such
\* position, no Dataset or no employer, nothing is charted and no file is
\* written.
C22_ChartedSortedByBaseline ==
  ChartReturned =>
    IF Len(town_colors) = 0 \/ PositionsWith(position_data, town_colors[1].key) = {}
      THEN plotted = <<>> /\ written = {}
      ELSE /\ {plotted[i].position : i \in 1..Len(plotted)}
                = PositionsWith(position_data, town_colors[1].key)
           /\ Len(plotted) = Cardinality(PositionsWith(position_data, town_colors[1].key))
           /\ \A i \in 1..Len(plotted) : \A j \in (i + 1)..Len(plotted) :
                ~Below(DictGet(plotted[j].salaries, town_colors[1].key),
                       DictGet(plotted[i].salaries, town_colors[1].key))

\* the integer value of a float with no fraction digits, with its sign
SignedAmount(v) == Scaled(v, 0)

\* the fraction p equals  100 * difference / baseline
IsPercentage(p, difference, baseline) ==
  /\ p.k = "num"
  /\ p.den > 0
  /\ p.num * Pow10(p.e - Min(0, p.e)) * SignedAmount(baseline)
       = 100 * SignedAmount(difference) * p.den * Pow10(0 - Min(0, p.e))

\* one row of the difference analysis is what C23 says of it
RowIsSound(item) ==
  /\ item.employer # town_colors[1].key
  /\ item.first_employer = town_colors[1].key
  /\ DictHas(position_data, item.position)
  /\ DictHas(DictGet(position_data, item.position), town_colors[1].key)
  /\ DictHas(DictGet(position_data, item.position), item.employer)
  /\ item.first_employer_salary
       = DictGet(DictGet(position_data, item.position), town_colors[1].key)
  /\ item.other = DictGet(DictGet(position_data, item.position), item.employer)
  /\ item.first_employer_salary.k = "num" /\ SignedAmount(item.first_employer_salary) > 0
  /\ item.other.k = "num" /\ SignedAmount(item.other) > 0
  /\ item.difference.k = "num"
  /\ SignedAmount(item.difference)
       = SignedAmount(item.other) - SignedAmount(item.first_employer_salary)
  /\ IsPercentage(item.percentage, item.difference, item.first_employer_salary)
  /\ pos_class(item) = perc_class(item)
  /\ (pos_class(item) = "positive") = (SignedAmount(item.difference) > 0)

\* C23: every row of the difference analysis is for another employer than
\* the baseline and a position where the baseline salary and the other
\* salary are both above 0, its difference is other - baseline, its
\* percentage is difference / baseline * 100 (so nothing is divided by
\* zero), and the class of the difference is the class of the percentage.
C23_DifferenceRowsSound ==
  ChartReturned =>
    \A i \in 1..Len(difference_analysis) : RowIsSound(difference_analysis[i])

\* a report with a row above the baseline and a row below it, from a
\* Dataset that also has a position whose baseline salary is 0
C23_Witness ==
  /\ ChartReturned
  /\ \E i \in 1..Len(difference_analysis) : pos_class(difference_analysis[i]) = "positive"
  /\ \E i \in 1..Len(difference_analysis) :
       SignedAmount(difference_analysis[i].difference) < 0
  /\ \E i \in 1..Len(position_data) :
       /\ DictHas(position_data[i].val, town_colors[1].key)
       /\ DictGet(position_data[i].val, town_colors[1].key) = FloatZero
       /\ Len(position_data[i].val) = 2

(***************************************************************************)
(* Claims about the files of the reports.                                  *)
(***************************************************************************)
\* C21: when the run of visualize_all_employers is done, every link of the
\* index page names a report that was written in the same run: the same
\* employer and the same timestamp, also for an employer without records or
\* whose records are all filtered out.
C21_IndexLinksExist ==
  (script = "all" /\ pc = "done") => index_links \subseteq written

(***************************************************************************)
(* Claims about ragged rows and repeated titles in the loaders.            *)
(***************************************************************************)
\* C24: load_comparison_data and load_all_employer_data raise nothing once
\* the header row is read, also on a data row with fewer cells than the
\* employer columns of the header: the only failures of a run are a missing
\* file, a file without a header row, and the NameError of __main__ after
\* the load.
C24_RaggedRowsLoad ==
  (script \in {"compare", "all"} /\ pc = "raised")
    => exc \in {"FileNotFoundError", "StopIteration", "NameError"}

\* the mapping m holds exactly the values parsed from the cells of row r
HoldsRow(m, r) ==
  /\ UniqueKeys(m)
  /\ KeySet(m) \subseteq KeySet(town_indices)
  /\ \A i \in 1..Len(town_indices) :
       IF Parsed(r[town_indices[i].val + 1]) # PyNone
         THEN /\ DictHas(m, town_indices[i].key)
              /\ DictGet(m, town_indices[i].key) = Parsed(r[town_indices[i].val + 1])
         ELSE ~DictHas(m, town_indices[i].key)

\* C25: a data row that load_comparison_data stores leaves one key for its
\* title, whose mapping holds exactly the values parsed from this row, also
\* when an earlier row had the same title and values this row leaves blank;
\* the mappings of the other titles stay as they are, so each title holds
\* the values of the last row with it.
C25_LastRowWins ==
  [][(ReadsRow /\ pc' = "rows") =>
       IF StoredKey(row') = {}
         THEN position_data' = position_data
         ELSE /\ UniqueKeys(position_data')
              /\ KeySet(position_data') = KeySet(position_data) \cup StoredKey(row')
              /\ HoldsRow(DictGet(position_data', strip(row'[1])), row')
              /\ \A k \in KeySet(position_data) \ StoredKey(row') :
                   DictGet(position_data', k) = DictGet(position_data, k)]_vars

\* two rows are read, the Dataset has the one title Clerk, and its mapping
\* is empty because the last row, a Clerk row, has a blank salary cell
C25_Witness ==
  /\ script = "compare"
  /\ pc = "rows"
  /\ rows_read = 2
  /\ Len(town_indices) = 1
  /\ row = <<Clerk, <<>>>>
  /\ Len(position_data) = 1
  /\ position_data[1].key = Clerk
  /\ position_data[1].val = <<>>

(***************************************************************************)
(* Claim about __main__ of visualize_dartmouth_original.                   *)
(***************************************************************************)
\* C26: when the load of visualize_dartmouth_original yields at least one
\* record, the run raises nothing, also when the filter leaves no record to
\* plot and create_visualization creates nothing.
C26_DartmouthRunFinishes ==
  (script = "dartmouth" /\ Len(dartmouth_data) > 0) => pc # "raised"

====
